---- MODULE Spec2Model ----
(***************************************************************************)
(* A state-machine model of src/futuristic-animations.js: the controller   *)
(* FuturisticAnimations (overlay, particles, floating shapes, neural       *)
(* network, scroll reveal, button ripples, frame loop, teardown) and the   *)
(* DOMContentLoaded handler that debounces window resize events.           *)
(*                                                                         *)
(* Time is in milliseconds.  A setTimeout task runs at its deadline: the   *)
(* clock does not pass a due timer, and input events dated at the same     *)
(* instant are delivered after it.                                         *)
(***************************************************************************)
EXTENDS Integers, Sequences, FiniteSets

(***************************************************************************)
(* Bounds of the model.                                                    *)
(***************************************************************************)
MaxAnimationEnds == 2
MaxResizes == 2
ResizeAgeCap == 300
MaxDestroys == 2
MaxNow == 60
MaxPageInputs == 2
MaxNotifications == 3
MaxEnters == 3
RippleAgeCap == 700

(***************************************************************************)
(* Program constants.                                                      *)
(***************************************************************************)
MobileBreakpoint == 768
ShapesSmall == 8
ShapesLarge == 15
ParticlesSmall == 20
ParticlesLarge == 40
NodesSmall == 12
NodesLarge == 20
ConnectionThreshold == 30
ResizeDebounce == 250

\* window.innerWidth values an environment may report
Widths == {767, 768}

\* Math.random(): the generator's outcome is an input, named by a seed.
Seeds == {1, 2, 3}

\* the steps by which the clock advances
Steps == {50, 100}

\* the same, where every delay is a multiple of 100ms
SlowSteps == {100, 200}

\* ms between the time stamps of consecutive frames
FrameGaps == {5, 11, 16, 17}

Min(a, b) == IF a < b THEN a ELSE b

Range(s) == {s[i] : i \in 1..Len(s)}

VARIABLES
    innerWidth,      \* window.innerWidth
    attached,        \* bgContainer is a child of document.body
    particles,       \* the .particle children of bgContainer
    particleSerial,  \* number of particle elements created so far
    shapes,          \* children of .floating-shapes
    nodeElems,       \* .neural-node children of .neural-network
    connElems,       \* .neural-connection children of .neural-network
    neuralNodes,     \* this.neuralNodes
    gen,             \* number of handleResize runs so far
    genWidth,        \* the innerWidth read by the latest generation
    initWidth,       \* the innerWidth read by the constructor
    animationEnds,   \* number of animationend events delivered
    resizeTimeout,   \* the closure variable resizeTimeout (0: undefined)
    resizeTimers,    \* pending setTimeout tasks of the resize listener
    resizeEvents,    \* number of resize events delivered
    sinceResize,     \* ms since the most recent resize event (capped)
    regens,          \* handleResize runs since the most recent resize event
    burstLen,        \* resize events of the current burst (gaps below 250ms)
    burstRegens,     \* handleResize runs since the current burst began
    rafCallbacks,    \* handles of the pending requestAnimationFrame callbacks
    rafSerial,       \* the latest handle requestAnimationFrame returned
    animationFrameId,\* this.animationFrameId (0: null)
    lastTime,        \* this.lastTime
    now,             \* the time stamp of the latest frame
    inFrame,         \* the browser is running a frame's callbacks
    frameQueue,      \* handles the running frame has still to visit
    destroyCalls,    \* number of destroy() calls so far
    destroyPoint,    \* where in the frame cycle destroy() was first called
    destroyedAt,     \* the latest frame's time stamp when it was first called
    lateCallbacks,   \* frame callbacks run after destroy() was called
    lastUpdate,      \* time stamp of the frame that last ran updateAnimations
    updateGap,       \* ms between the two latest updateAnimations frames
    inView,          \* the page elements whose classList holds 'in-view'
    revealTimers,    \* pending setTimeout tasks of the observer callback
    notifications,   \* number of observer callbacks delivered
    reported,        \* the elements reported as intersecting so far
    lastReveal,      \* the reveal timer that ran last
    exited,          \* elements reported as not intersecting while marked
    transform,       \* style.transform of each button
    ripples,         \* the ripple children of the buttons, with their timers
    enterLog,        \* the mouseenter events so far, with their age
    lastPointer      \* the latest pointer event of each button

widthVars == <<innerWidth, initWidth>>
particleVars == <<particles, particleSerial, animationEnds>>
genVars == <<shapes, nodeElems, connElems, neuralNodes, gen, genWidth>>
resizeVars == <<resizeTimeout, resizeTimers, resizeEvents, sinceResize, regens,
                burstLen, burstRegens>>
loopVars == <<rafCallbacks, rafSerial, animationFrameId, lastTime>>
frameVars == <<now, inFrame, frameQueue>>
destroyVars == <<attached, destroyCalls, destroyPoint, destroyedAt>>
updateVars == <<lateCallbacks, lastUpdate, updateGap>>
revealVars == <<inView, revealTimers, notifications, reported, lastReveal,
                exited>>
rippleVars == <<transform, ripples, enterLog, lastPointer>>

vars == <<widthVars, particleVars, genVars, resizeVars, loopVars, frameVars,
          destroyVars, updateVars, revealVars, rippleVars>>

(***************************************************************************)
(* Math.random() * 100 for the i-th element of a generation.  Each seed    *)
(* walks the plane with its own stride, so that pairs at distance 0,       *)
(* below 30, exactly 30 and above 30 all occur.                            *)
(***************************************************************************)
StrideX(seed) == IF seed = 1 THEN 3 ELSE IF seed = 2 THEN 18 ELSE 50
StrideY(seed) == IF seed = 1 THEN 4 ELSE IF seed = 2 THEN 24 ELSE 0

RandomX(seed, i) == (seed + i * StrideX(seed)) % 100
RandomY(seed, i) == (2 * seed + i * StrideY(seed)) % 100

(***************************************************************************)
(* Math.sqrt, in hundredths (rounded down).  For integer n, the result is  *)
(* below 100 * t exactly when sqrt(n) < t.                                 *)
(***************************************************************************)
RECURSIVE SqrtSearch(_, _, _)
SqrtSearch(n, lo, hi) ==
    IF lo >= hi THEN lo
    ELSE LET mid == (lo + hi + 1) \div 2
         IN IF mid * mid <= n THEN SqrtSearch(n, mid, hi)
            ELSE SqrtSearch(n, lo, mid - 1)

\* the roots of the sums of two squared differences of coordinates in 0..99
SqrtTable == [n \in 0..(2 * 99 * 99) |-> SqrtSearch(n * 10000, 0, 15000)]

MathSqrt(n) == SqrtTable[n]

(***************************************************************************)
(* createFloatingShapes: the shapes appended to .floating-shapes.          *)
(***************************************************************************)
ShapeCount(w) == IF w < MobileBreakpoint THEN ShapesSmall ELSE ShapesLarge

createFloatingShapes(w, seed, g) ==
    [i \in 1..ShapeCount(w) |->
        [cls |-> "hex-shape", gen |-> g, idx |-> i,
         left |-> RandomX(seed, i), top |-> RandomY(seed, i)]]

(***************************************************************************)
(* initParticleSystem / createParticle                                     *)
(***************************************************************************)
ParticleCount(w) == IF w < MobileBreakpoint THEN ParticlesSmall ELSE ParticlesLarge

\* bgContainer's particles after createParticle appends element number serial
createParticle(ps, serial) == ps \cup {serial}

initParticleSystem(w) == 1..ParticleCount(w)

(***************************************************************************)
(* createNeuralNetwork: the node elements and this.neuralNodes entries,    *)
(* then createNeuralConnections over this.neuralNodes.                     *)
(***************************************************************************)
NodeCount(w) == IF w < MobileBreakpoint THEN NodesSmall ELSE NodesLarge

NewNodeElems(w, seed, g) ==
    [i \in 1..NodeCount(w) |->
        [cls |-> "neural-node", gen |-> g, idx |-> i,
         left |-> RandomX(seed, i), top |-> RandomY(seed, i)]]

NewNeuralNodes(w, seed, g) ==
    [i \in 1..NodeCount(w) |->
        [element |-> <<g, i>>, x |-> RandomX(seed, i), y |-> RandomY(seed, i)]]

Distance(node, otherNode) ==
    MathSqrt((node.x - otherNode.x) * (node.x - otherNode.x)
             + (node.y - otherNode.y) * (node.y - otherNode.y))

\* the connection element of a pair; from/to name the pair's node elements
Connection(node, otherNode, distance) ==
    [cls |-> "neural-connection",
     left |-> node.x, top |-> node.y,
     width |-> distance,
     rotate |-> <<otherNode.y - node.y, otherNode.x - node.x>>,
     from |-> node.element, to |-> otherNode.element]

\* distance < 30, the distance being in hundredths
Near(distance) == distance < ConnectionThreshold * 100

\* the inner forEach: the connections of nodes[index] with nodes[j..]
RECURSIVE ConnectionsFrom(_, _, _)
ConnectionsFrom(nodes, index, j) ==
    IF j > Len(nodes) THEN <<>>
    ELSE LET distance == Distance(nodes[index], nodes[j])
         IN (IF Near(distance)
             THEN <<Connection(nodes[index], nodes[j], distance)>> ELSE <<>>)
            \o ConnectionsFrom(nodes, index, j + 1)

\* the outer forEach, from nodes[index] on
RECURSIVE ConnectionsAll(_, _)
ConnectionsAll(nodes, index) ==
    IF index > Len(nodes) THEN <<>>
    ELSE ConnectionsFrom(nodes, index, index + 1) \o ConnectionsAll(nodes, index + 1)

createNeuralConnections(nodes) == ConnectionsAll(nodes, 1)

(***************************************************************************)
(* startAnimationLoop and the frame callback animate.                      *)
(***************************************************************************)
FrameInterval == 16

\* requestAnimationFrame(animate): the callback map with the new handle
requestAnimationFrame(cbs, handle) == cbs \cup {handle}

cancelAnimationFrame(cbs, handle) == cbs \ {handle}

\* animate's test, and the lastTime it leaves
Throttle(currentTime, lt) == currentTime - lt >= FrameInterval

\* an animate that stores the time stamp of every frame
NextLastTimeEveryFrame(currentTime, lt) == currentTime

NextLastTime(currentTime, lt) == IF Throttle(currentTime, lt) THEN currentTime ELSE lt

\* the map of pending callbacks when animate, run as handle h, returns
animate(cbs, h, handle) == requestAnimationFrame(cbs \ {h}, handle)

(***************************************************************************)
(* The page the controller is loaded into: its elements in document order, *)
(* their parents and their classes.                                        *)
(***************************************************************************)
DocOrder == <<"title", "hero", "heroBtn", "grid", "card1", "card2", "feat",
              "note", "loneCard">>

Parent(e) ==
    IF e = "heroBtn" THEN "hero"
    ELSE IF e \in {"card1", "card2", "feat", "note"} THEN "grid"
    ELSE "body"

ClassList(e) ==
    IF e = "title" THEN {"fade-in-element"}
    ELSE IF e = "hero" THEN {"hero-cta", "fade-in-element"}
    ELSE IF e = "heroBtn" THEN {"fade-in-element"}
    ELSE IF e = "grid" THEN {"grid"}
    ELSE IF e = "card1" THEN {"portal-card", "fade-in-element"}
    ELSE IF e = "card2" THEN {"portal-card"}
    ELSE IF e = "feat" THEN {"fade-in-element"}
    ELSE IF e = "note" THEN {"fade-in-element"}
    ELSE IF e = "loneCard" THEN {"portal-card"}
    ELSE {}

\* element.closest('.hero-cta, .grid'): the element itself or its nearest
\* ancestor of one of the two classes
RECURSIVE closest(_)
closest(e) ==
    IF e = "body" THEN "none"
    ELSE IF ClassList(e) \cap {"hero-cta", "grid"} # {} THEN e
    ELSE closest(Parent(e))

RECURSIVE IsDescendant(_, _)
IsDescendant(e, c) ==
    IF e = "body" THEN FALSE
    ELSE Parent(e) = c \/ IsDescendant(Parent(e), c)

\* a lookup that returns only the first match
querySelectorFirst(c) ==
    LET all == SelectSeq(DocOrder, LAMBDA e : IsDescendant(e, c)
                                    /\ "fade-in-element" \in ClassList(e))
    IN IF all = <<>> THEN <<>> ELSE <<Head(all)>>

\* container.querySelectorAll('.fade-in-element'): descendants, document order
FadeInTest(e, c) == IsDescendant(e, c) /\ "fade-in-element" \in ClassList(e)

querySelectorAll(c) == SelectSeq(DocOrder, LAMBDA e : FadeInTest(e, c))

\* document.querySelectorAll('.fade-in-element, .portal-card, .hero-cta')
Observed ==
    {e \in Range(DocOrder) :
        ClassList(e) \cap {"fade-in-element", "portal-card", "hero-cta"} # {}}

(***************************************************************************)
(* The IntersectionObserver callback of setupScrollAnimations.             *)
(***************************************************************************)
StaggerDelay == 200

\* a callback that gives every sibling the same delay
RevealDelayFlat(index) == IF index = 0 THEN 0 ELSE StaggerDelay

RevealDelay(index) == index * StaggerDelay

\* the timers of one staggered reveal; container and age (the time since the
\* entry was delivered) name the reveal a timer belongs to
ScheduleReveals(timers, container, siblings) ==
    timers \cup {[container |-> container, index |-> i - 1,
                  sibling |-> siblings[i], remaining |-> RevealDelay(i - 1),
                  age |-> 0] : i \in 1..Len(siblings)}

\* a callback that takes the mark back when the element leaves the viewport
onExitUnreveal(marked, target) == marked \ {target}

\* what a non-intersecting entry does to the marked elements
onExit(marked, target) == marked

\* the body of entries.forEach for one entry
onEntry(st, entry) ==
    IF entry.isIntersecting
    THEN LET container == closest(entry.target)
         IN IF container # "none"
            THEN [st EXCEPT !.timers = ScheduleReveals(@, container,
                                                       querySelectorAll(container))]
            ELSE [st EXCEPT !.marked = @ \cup {entry.target}]
    ELSE [st EXCEPT !.marked = onExit(@, entry.target)]

RECURSIVE ObserverCallback(_, _)
ObserverCallback(st, entries) ==
    IF entries = <<>> THEN st
    ELSE ObserverCallback(onEntry(st, Head(entries)), Tail(entries))

Entries == [target : Observed, isIntersecting : BOOLEAN]

\* a batch of several entries acts as its entries delivered one after another
\* at the same instant
Batches == {<<a>> : a \in Entries}

(***************************************************************************)
(* onButtonHover, onButtonLeave and createRippleEffect.                    *)
(***************************************************************************)
Buttons == {"btnPrimary", "btnSecondary"}

RippleLife == 600

\* element.appendChild(ripple); setTimeout(() => ripple.remove(), 600)
createRippleEffect(rs, button, id) ==
    rs \cup {[button |-> button, id |-> id, remaining |-> RippleLife]}

\* a leave handler that also removes the button's ripples
onButtonLeaveClearing(rs, button) == {r \in rs : r.button # button}

\* the ripples after onButtonLeave
onButtonLeave(rs, button) == rs

(***************************************************************************)
(* Init: the state when the DOMContentLoaded handler has returned.         *)
(***************************************************************************)
InitOverlay(w, seed) ==
        /\ innerWidth = w
        /\ initWidth = w
        /\ genWidth = w
        /\ attached = TRUE
        /\ shapes = createFloatingShapes(w, seed, 0)
        /\ particles = initParticleSystem(w)
        /\ particleSerial = ParticleCount(w)
        /\ nodeElems = NewNodeElems(w, seed, 0)
        /\ neuralNodes = <<>> \o NewNeuralNodes(w, seed, 0)
        /\ connElems = createNeuralConnections(<<>> \o NewNeuralNodes(w, seed, 0))
        /\ gen = 0
        /\ animationEnds = 0

InitResize ==
    /\ resizeTimeout = 0
    /\ resizeTimers = {}
    /\ resizeEvents = 0
    /\ sinceResize = ResizeAgeCap
    /\ regens = 0
    /\ burstLen = 0
    /\ burstRegens = 0

InitLoop ==
    /\ rafCallbacks = requestAnimationFrame({}, 1)
    /\ rafSerial = 1
    /\ animationFrameId = 1
    /\ lastTime = 0
    /\ now = 0
    /\ inFrame = FALSE
    /\ frameQueue = {}
    /\ destroyCalls = 0
    /\ destroyPoint = "none"
    /\ destroyedAt = -1
    /\ lateCallbacks = 0
    /\ lastUpdate = -1
    /\ updateGap = -1

InitReveal ==
    /\ inView = {}
    /\ revealTimers = {}
    /\ notifications = 0
    /\ reported = {}
    /\ lastReveal = [container |-> "none", index |-> 0, age |-> 0]
    /\ exited = {}

InitRipple ==
    /\ transform = [b \in Buttons |-> ""]
    /\ ripples = {}
    /\ enterLog = {}
    /\ lastPointer = [b \in Buttons |-> "none"]

InitRest == InitResize /\ InitLoop /\ InitReveal /\ InitRipple

Init == \E w \in Widths, seed \in Seeds : InitOverlay(w, seed) /\ InitRest

\* one overlay, for the parts of the program that do not read it
InitWide == InitOverlay(MobileBreakpoint, 1) /\ InitRest

(***************************************************************************)
(* Timers.                                                                 *)
(***************************************************************************)
NoTimerDue ==
    \A t \in resizeTimers \cup revealTimers \cup ripples : t.remaining > 0

(***************************************************************************)
(* A particle's animationend listener: particle.remove(), createParticle() *)
(* Particles differ by identity only; the oldest and the newest stand for  *)
(* the rest.  Elements of a detached overlay run no animation.             *)
(***************************************************************************)
Ending(ps) == {p \in ps : \/ \A q \in ps : p <= q
                          \/ \A q \in ps : p >= q}

\* a listener that creates the replacement and leaves the old particle
onAnimationEndKeeping(ps, p, serial) == createParticle(ps, serial)

onAnimationEnd(ps, p, serial) == createParticle(ps \ {p}, serial)

ParticleAnimationEnd ==
    /\ attached
    /\ NoTimerDue
    /\ animationEnds < MaxAnimationEnds
    /\ \E p \in Ending(particles) :
          particles' = onAnimationEnd(particles, p, particleSerial + 1)
    /\ particleSerial' = particleSerial + 1
    /\ animationEnds' = animationEnds + 1
    /\ UNCHANGED <<widthVars, genVars, resizeVars, loopVars, frameVars,
                   destroyVars, updateVars, revealVars, rippleVars>>

(***************************************************************************)
(* The window resize listener: clearTimeout(resizeTimeout), then           *)
(* resizeTimeout = setTimeout(handleResize, 250).                          *)
(***************************************************************************)
clearTimeout(timers, id) == {t \in timers : t.id # id}

setTimeout(timers, id, delay) == timers \cup {[id |-> id, remaining |-> delay]}

\* a listener that sets the new timer and leaves the old one pending
onResizeNoClear(timers, old, id) == setTimeout(timers, id, ResizeDebounce)

onResize(timers, old, id) == setTimeout(clearTimeout(timers, old), id, ResizeDebounce)

ResizeEvent ==
    /\ NoTimerDue
    /\ resizeEvents < MaxResizes
    /\ \E w \in Widths : innerWidth' = w
    /\ resizeTimers' = onResize(resizeTimers, resizeTimeout, resizeEvents + 1)
    /\ resizeTimeout' = resizeEvents + 1
    /\ resizeEvents' = resizeEvents + 1
    /\ sinceResize' = 0
    /\ regens' = 0
    /\ burstLen' = IF sinceResize < ResizeDebounce THEN burstLen + 1 ELSE 1
    /\ burstRegens' = IF sinceResize < ResizeDebounce THEN burstRegens ELSE 0
    /\ UNCHANGED <<initWidth, particleVars, genVars, loopVars, frameVars,
                   destroyVars, updateVars, revealVars, rippleVars>>

(***************************************************************************)
(* handleResize, run by a due resize timer.                                *)
(***************************************************************************)
\* a handleResize that leaves the old entries in this.neuralNodes
KeepNeuralNodes(old) == old

\* this.neuralNodes when createNeuralNetwork starts within handleResize
ResetNeuralNodes(old) == <<>>

\* a handleResize that leaves a container's children in place
KeepChildren(old) == old

\* a container's children once innerHTML = '' has run
ClearChildren(old) == <<>>

handleResize(seed) ==
    LET w == innerWidth
        nn == ResetNeuralNodes(neuralNodes) \o NewNeuralNodes(w, seed, gen + 1)
    IN /\ shapes' = ClearChildren(shapes) \o createFloatingShapes(w, seed, gen + 1)
       /\ nodeElems' = ClearChildren(nodeElems) \o NewNodeElems(w, seed, gen + 1)
       /\ neuralNodes' = nn
       /\ connElems' = ClearChildren(connElems) \o createNeuralConnections(nn)
       /\ gen' = gen + 1
       /\ genWidth' = w

ResizeTimerFire ==
    \E t \in resizeTimers :
        /\ t.remaining = 0
        /\ resizeTimers' = resizeTimers \ {t}
        /\ \E seed \in Seeds : handleResize(seed)
        /\ regens' = regens + 1
        /\ burstRegens' = burstRegens + 1
        /\ UNCHANGED <<widthVars, particleVars, resizeTimeout, resizeEvents,
                       sinceResize, burstLen, loopVars, frameVars, destroyVars,
                       updateVars, revealVars, rippleVars>>

(***************************************************************************)
(* destroy(): cancelAnimationFrame(this.animationFrameId) when the id is   *)
(* truthy, then bgContainer.remove().  It may be called between frames or  *)
(* by another callback of a running frame, before or after animate.        *)
(***************************************************************************)
\* a destroy() that leaves the pending frame callback alone
destroyLoopNoCancel(cbs, id) == cbs

destroyLoop(cbs, id) == IF id # 0 THEN cancelAnimationFrame(cbs, id) ELSE cbs

FramePoint ==
    IF ~inFrame THEN "between"
    ELSE IF frameQueue \cap rafCallbacks # {} THEN "before" ELSE "after"

Destroy ==
    /\ NoTimerDue
    /\ destroyCalls < MaxDestroys
    /\ rafCallbacks' = destroyLoop(rafCallbacks, animationFrameId)
    /\ attached' = FALSE
    /\ destroyCalls' = destroyCalls + 1
    /\ destroyPoint' = IF destroyCalls = 0 THEN FramePoint ELSE destroyPoint
    /\ destroyedAt' = IF destroyCalls = 0 THEN now ELSE destroyedAt
    /\ UNCHANGED <<widthVars, particleVars, genVars, resizeVars, rafSerial,
                   animationFrameId, lastTime, frameVars, updateVars, revealVars,
                   rippleVars>>

(***************************************************************************)
(* A frame: the browser takes the handles pending at its start and runs    *)
(* each callback that has not been cancelled by then.                      *)
(***************************************************************************)
BeginFrame ==
    /\ ~inFrame
    /\ \E g \in FrameGaps : /\ now + g <= MaxNow
                            /\ now' = now + g
    /\ inFrame' = TRUE
    /\ frameQueue' = rafCallbacks
    /\ UNCHANGED <<widthVars, particleVars, genVars, resizeVars, loopVars,
                   destroyVars, updateVars, revealVars, rippleVars>>

RunFrameCallback ==
    /\ inFrame
    /\ \E h \in frameQueue :
        /\ frameQueue' = frameQueue \ {h}
        /\ IF h \in rafCallbacks
           THEN /\ rafCallbacks' = animate(rafCallbacks, h, rafSerial + 1)
                /\ rafSerial' = rafSerial + 1
                /\ animationFrameId' = rafSerial + 1
                /\ lastTime' = NextLastTime(now, lastTime)
                /\ lateCallbacks' = lateCallbacks + (IF destroyCalls > 0 THEN 1 ELSE 0)
                /\ IF Throttle(now, lastTime)
                   THEN /\ lastUpdate' = now
                        /\ updateGap' = IF lastUpdate < 0 THEN -1 ELSE now - lastUpdate
                   ELSE UNCHANGED <<lastUpdate, updateGap>>
           ELSE UNCHANGED <<loopVars, updateVars>>
    /\ UNCHANGED <<widthVars, particleVars, genVars, resizeVars, now, inFrame,
                   destroyVars, revealVars, rippleVars>>

EndFrame ==
    /\ inFrame
    /\ frameQueue = {}
    /\ inFrame' = FALSE
    /\ UNCHANGED <<widthVars, particleVars, genVars, resizeVars, loopVars, now,
                   frameQueue, destroyVars, updateVars, revealVars, rippleVars>>

(***************************************************************************)
(* The observer delivers a batch of entries; a due reveal timer runs.      *)
(***************************************************************************)
ObserverNotify ==
    /\ NoTimerDue
    /\ notifications < MaxNotifications
    /\ \E entries \in Batches :
          LET st == ObserverCallback([marked |-> inView, timers |-> revealTimers],
                                     entries)
          IN /\ inView' = st.marked
             /\ revealTimers' = st.timers
             /\ reported' = reported \cup
                   {entries[i].target : i \in {k \in 1..Len(entries) :
                                                  entries[k].isIntersecting}}
             /\ exited' = exited \cup
                   {entries[i].target : i \in {k \in 1..Len(entries) :
                                                  /\ ~entries[k].isIntersecting
                                                  /\ entries[k].target \in inView}}
    /\ notifications' = notifications + 1
    /\ UNCHANGED <<widthVars, particleVars, genVars, resizeVars, loopVars,
                   frameVars, destroyVars, updateVars, lastReveal, rippleVars>>

RevealTimerFire ==
    \E t \in revealTimers :
        /\ t.remaining = 0
        /\ revealTimers' = revealTimers \ {t}
        /\ inView' = inView \cup {t.sibling}
        /\ lastReveal' = [container |-> t.container, index |-> t.index,
                          age |-> t.age]
        /\ UNCHANGED <<widthVars, particleVars, genVars, resizeVars, loopVars,
                       frameVars, destroyVars, updateVars, notifications,
                       reported, exited, rippleVars>>

(***************************************************************************)
(* mouseenter and mouseleave on a button; a due ripple timer runs.         *)
(***************************************************************************)
ButtonEnter ==
    /\ NoTimerDue
    /\ Cardinality(enterLog) < MaxEnters
    /\ \E b \in Buttons :
          LET id == Cardinality(enterLog) + 1
          IN /\ transform' = [transform EXCEPT ![b] = "translateY(-4px)"]
             /\ ripples' = createRippleEffect(ripples, b, id)
             /\ enterLog' = enterLog \cup {[button |-> b, id |-> id, age |-> 0]}
             /\ lastPointer' = [lastPointer EXCEPT ![b] = "enter"]
    /\ UNCHANGED <<widthVars, particleVars, genVars, resizeVars, loopVars,
                   frameVars, destroyVars, updateVars, revealVars>>

ButtonLeave ==
    /\ NoTimerDue
    /\ \E b \in Buttons :
          /\ transform' = [transform EXCEPT ![b] = ""]
          /\ ripples' = onButtonLeave(ripples, b)
          /\ lastPointer' = [lastPointer EXCEPT ![b] = "leave"]
    /\ UNCHANGED <<widthVars, particleVars, genVars, resizeVars, loopVars,
                   frameVars, destroyVars, updateVars, revealVars, enterLog>>

RippleTimerFire ==
    \E r \in ripples :
        /\ r.remaining = 0
        /\ ripples' = ripples \ {r}
        /\ UNCHANGED <<widthVars, particleVars, genVars, resizeVars, loopVars,
                       frameVars, destroyVars, updateVars, revealVars, transform,
                       enterLog, lastPointer>>

(***************************************************************************)
(* The clock advances by d, never past a pending timer's deadline.         *)
(***************************************************************************)
Advance(d) ==
    /\ \A t \in resizeTimers \cup revealTimers \cup ripples : t.remaining >= d
    /\ resizeTimers' = {[t EXCEPT !.remaining = @ - d] : t \in resizeTimers}
    /\ sinceResize' = Min(sinceResize + d, ResizeAgeCap)
    /\ revealTimers' = {[t EXCEPT !.remaining = @ - d, !.age = @ + d] :
                           t \in revealTimers}
    /\ ripples' = {[r EXCEPT !.remaining = @ - d] : r \in ripples}
    /\ enterLog' = {[e EXCEPT !.age = Min(@ + d, RippleAgeCap)] : e \in enterLog}
    /\ UNCHANGED <<widthVars, particleVars, genVars, resizeTimeout, resizeEvents,
                   regens, burstLen, burstRegens, loopVars, frameVars,
                   destroyVars, updateVars, inView, notifications, reported,
                   lastReveal, exited, transform, lastPointer>>

Tick == \E d \in Steps : Advance(d)

SlowTick == \E d \in SlowSteps : Advance(d)

NextOverlay ==
    \/ ParticleAnimationEnd
    \/ ResizeEvent
    \/ ResizeTimerFire
    \/ Destroy
    \/ Tick

SpecOverlay == Init /\ [][NextOverlay]_vars

NextFrame ==
    \/ BeginFrame
    \/ RunFrameCallback
    \/ EndFrame
    \/ Destroy

SpecFrame == InitWide /\ [][NextFrame]_vars

NextReveal ==
    \/ ObserverNotify
    \/ RevealTimerFire
    \/ SlowTick

\* a due timer task is run, and time passes
SpecReveal ==
    InitWide /\ [][NextReveal]_vars /\ WF_vars(RevealTimerFire) /\ WF_vars(SlowTick)

NextRipple ==
    \/ ButtonEnter
    \/ ButtonLeave
    \/ RippleTimerFire
    \/ SlowTick

SpecRipple == InitWide /\ [][NextRipple]_vars

\* the page as a whole: scroll reveal, resize regeneration and teardown, for
\* every interleaving of at most MaxPageInputs notifications and resize events
PageBudget == notifications + resizeEvents < MaxPageInputs

NextPage ==
    \/ PageBudget /\ ObserverNotify
    \/ RevealTimerFire
    \/ PageBudget /\ ResizeEvent
    \/ ResizeTimerFire
    \/ Destroy
    \/ Tick

SpecPage == InitWide /\ [][NextPage]_vars

(***************************************************************************)
(* Properties.                                                             *)
(***************************************************************************)
SmallViewport(w) == w < MobileBreakpoint

\* the identity of a node element, as this.neuralNodes and connections name it
ElemId(e) == <<e.gen, e.idx>>

\* C1: the overlay always holds as many particles as the constructor chose
\* from the viewport width (20 below 768, else 40), whatever animationend
\* events and resize regenerations have happened since.
ParticleCountConstant ==
    Cardinality(particles) =
        (IF SmallViewport(initWidth) THEN ParticlesSmall ELSE ParticlesLarge)

ParticleCountWitness ==
    /\ animationEnds >= 2
    /\ gen >= 1
    /\ SmallViewport(initWidth) # SmallViewport(genWidth)
    /\ \E p \in particles : p > ParticlesLarge

\* C3: the shapes layer and the network layer hold the counts of the bucket
\* of the width their generation read (8 and 12 below 768, else 15 and 20),
\* all of the latest generation, and this.neuralNodes has exactly one entry
\* per node element of the layer.
GenerationCounts ==
    /\ Len(shapes) = (IF SmallViewport(genWidth) THEN ShapesSmall ELSE ShapesLarge)
    /\ Len(nodeElems) = (IF SmallViewport(genWidth) THEN NodesSmall ELSE NodesLarge)
    /\ \A i \in 1..Len(shapes) : shapes[i].gen = gen
    /\ \A i \in 1..Len(nodeElems) : nodeElems[i].gen = gen
    /\ \A i \in 1..Len(nodeElems) :
          Cardinality({k \in 1..Len(neuralNodes) :
                          neuralNodes[k].element = ElemId(nodeElems[i])}) = 1
    /\ \A k \in 1..Len(neuralNodes) :
          \E i \in 1..Len(nodeElems) : neuralNodes[k].element = ElemId(nodeElems[i])

GenerationCountsWitness ==
    /\ gen >= 2
    /\ SmallViewport(initWidth) # SmallViewport(genWidth)
    /\ destroyCalls = 0

\* the squared distance of two node elements, in percentage coordinates
Dist2(a, b) ==
    (a.left - b.left) * (a.left - b.left) + (a.top - b.top) * (a.top - b.top)

\* the connections that join node element a to node element b
ConnsOf(a, b) ==
    {k \in 1..Len(connElems) :
        connElems[k].from = ElemId(a) /\ connElems[k].to = ElemId(b)}

\* the pairs of positions in the layer whose nodes are less than 30 apart
NearPairs ==
    {p \in (1..Len(nodeElems)) \X (1..Len(nodeElems)) :
        /\ p[1] < p[2]
        /\ Dist2(nodeElems[p[1]], nodeElems[p[2]])
              < ConnectionThreshold * ConnectionThreshold}

\* C4: every pair of distinct node elements of the layer has exactly one
\* connection when its distance is below 30 and none otherwise (none at
\* exactly 30); the connection is as long as the distance and starts at the
\* earlier node; every connection joins two nodes of the layer.
\* (Node elements are distinct, there are as many connections as near pairs
\* and they join exactly the near pairs, earlier node first.)
ConnectionsExact ==
    /\ Cardinality({ElemId(nodeElems[i]) : i \in 1..Len(nodeElems)}) = Len(nodeElems)
    /\ Len(connElems) = Cardinality(NearPairs)
    /\ {<<connElems[k].from, connElems[k].to>> : k \in 1..Len(connElems)}
          = {<<ElemId(nodeElems[p[1]]), ElemId(nodeElems[p[2]])>> : p \in NearPairs}
    /\ \A k \in 1..Len(connElems) :
          LET c == connElems[k]
          IN /\ c.from[2] \in 1..Len(nodeElems)
             /\ c.to[2] \in 1..Len(nodeElems)
             /\ LET a == nodeElems[c.from[2]]
                    b == nodeElems[c.to[2]]
                IN /\ ElemId(a) = c.from
                   /\ ElemId(b) = c.to
                   /\ c.width * c.width <= Dist2(a, b) * 10000
                   /\ (c.width + 1) * (c.width + 1) > Dist2(a, b) * 10000
                   /\ c.left = a.left
                   /\ c.top = a.top

ConnectionsWitness ==
    /\ gen >= 1
    /\ \E i, j \in 1..Len(nodeElems) :
          i < j /\ Dist2(nodeElems[i], nodeElems[j])
                      = ConnectionThreshold * ConnectionThreshold
    /\ \E i, j \in 1..Len(nodeElems) :
          i < j /\ Dist2(nodeElems[i], nodeElems[j]) > 0
                /\ ConnsOf(nodeElems[i], nodeElems[j]) # {}
    /\ \E i, j \in 1..Len(nodeElems) :
          i < j /\ ConnsOf(nodeElems[i], nodeElems[j]) = {}

\* C7: at most one regeneration timer is pending; handleResize has run since
\* the most recent resize event only if 250ms have passed since that event;
\* a burst of resize events less than 250ms apart causes no regeneration
\* before it ends and exactly one once 250ms have passed after its last event.
ResizeDebounced ==
    /\ Cardinality(resizeTimers) <= 1
    /\ regens > 0 => sinceResize >= ResizeDebounce
    /\ burstRegens <= 1
    /\ sinceResize < ResizeDebounce => regens = 0
    /\ (burstLen > 0 /\ sinceResize > ResizeDebounce) => burstRegens = 1

ResizeDebouncedWitness ==
    /\ burstLen >= 2
    /\ burstRegens = 1
    /\ sinceResize > ResizeDebounce

\* C2: once destroy() has been called the overlay is detached, no frame
\* callback is pending and none has run since, wherever in the frame cycle
\* the call came and however often it was repeated.
DestroyHalts ==
    destroyCalls > 0 =>
        /\ ~attached
        /\ rafCallbacks = {}
        /\ lateCallbacks = 0

DestroyHaltsWitness ==
    /\ destroyCalls = 2
    /\ destroyPoint = "before"
    /\ inFrame
    /\ now > destroyedAt

\* C8: until destroy() exactly one frame callback is pending, the one
\* this.animationFrameId names; two consecutive updateAnimations frames are
\* at least 16ms apart; lastTime is the time stamp of the latest frame that
\* ran updateAnimations (0 before the first).
LoopThrottled ==
    /\ destroyCalls = 0 => rafCallbacks = {animationFrameId}
    /\ Cardinality(rafCallbacks) <= 1
    /\ updateGap = -1 \/ updateGap >= FrameInterval
    /\ lastTime = (IF lastUpdate < 0 THEN 0 ELSE lastUpdate)

LoopThrottledWitness ==
    /\ destroyCalls = 0
    /\ updateGap >= FrameInterval
    /\ lastUpdate < now
    /\ ~inFrame

\* the timers of a staggered reveal respect its delays and its order
StaggerSafe ==
    /\ \A t \in revealTimers : t.age + t.remaining >= t.index * StaggerDelay
    /\ lastReveal.age >= lastReveal.index * StaggerDelay
    /\ \A t1, t2 \in revealTimers :
          (t1.container = t2.container /\ t1.age = t2.age /\ t1.index < t2.index)
             => t1.remaining < t2.remaining
    /\ \A t \in revealTimers :
          (t.container = lastReveal.container /\ t.age = lastReveal.age)
             => t.index >= lastReveal.index

\* C5: a sibling of index i is marked by a staggered reveal no earlier than
\* i * 200ms after the entry was delivered, the siblings of one reveal are
\* marked in index order, and once an element of a container was reported as
\* intersecting every fade-in element of that container is eventually marked.
StaggeredReveal ==
    /\ []StaggerSafe
    /\ (reported \cap {"card1", "card2", "feat", "note"} # {})
          ~> ({"card1", "feat", "note"} \subseteq inView)
    /\ (reported \cap {"hero", "heroBtn"} # {}) ~> ("heroBtn" \in inView)

StaggeredRevealWitness ==
    /\ lastReveal = [container |-> "grid", index |-> 2, age |-> 2 * StaggerDelay]
    /\ {"card1", "feat", "note"} \subseteq inView
    /\ \E t \in revealTimers : t.container = "grid" /\ t.index = 2

\* C6: an element marked 'in-view' stays marked in every later state.
RevealOneShot == [][inView \subseteq inView']_vars

RevealOneShotWitness ==
    /\ exited \cap inView # {}
    /\ destroyCalls > 0

\* C10, in its general form: every observed element reported as intersecting is marked
\* once no reveal timer is pending any more.
AllReportedRevealed == revealTimers = {} => reported \subseteq inView

\* e is, or lies inside, a .hero-cta or .grid element
InContainer(e) ==
    \E c \in Range(DocOrder) :
        /\ c = e \/ IsDescendant(e, c)
        /\ ClassList(c) \cap {"hero-cta", "grid"} # {}

\* the elements that the callback marks when they are reported themselves
RevealsItself(e) ==
    \/ ~InContainer(e)
    \/ /\ "fade-in-element" \in ClassList(e)
       /\ ClassList(e) \cap {"hero-cta", "grid"} = {}

\* C10, restricted to the elements the callback marks themselves: an observed element reported as intersecting is eventually
\* marked itself when it neither is nor lies inside a .hero-cta or .grid
\* element, or when it carries fade-in-element and is not itself a .hero-cta
\* or .grid element.
ReportedRevealed ==
    \A e \in {x \in Observed : RevealsItself(x)} :
        (e \in reported) ~> (e \in inView)

ReportedRevealedWitness ==
    /\ {"title", "loneCard", "note"} \subseteq reported \cap inView
    /\ revealTimers = {}

\* C9: a mouseenter leaves the button raised and a mouseleave leaves it
\* reset; every ripple stems from one mouseenter on its button; a ripple is
\* in the button while less than 600ms have passed since its mouseenter,
\* whatever mouseleave events came, and is gone once more than 600ms have
\* passed, so that a button has no ripple once 600ms have passed with no
\* further mouseenter.
RippleLifetime ==
    /\ \A b \in Buttons :
          /\ lastPointer[b] = "enter" => transform[b] = "translateY(-4px)"
          /\ lastPointer[b] # "enter" => transform[b] = ""
    /\ \A r \in ripples :
          \E e \in enterLog : e.id = r.id /\ e.button = r.button
    /\ \A e \in enterLog :
          /\ e.age < RippleLife =>
                Cardinality({r \in ripples : r.id = e.id /\ r.button = e.button}) = 1
          /\ e.age > RippleLife => {r \in ripples : r.id = e.id} = {}
    /\ \A b \in Buttons :
          (\A e \in enterLog : e.button = b => e.age > RippleLife)
             => {r \in ripples : r.button = b} = {}

RippleLifetimeWitness ==
    \E b \in Buttons :
        /\ lastPointer[b] = "leave"
        /\ \E e \in enterLog : e.button = b /\ e.age > RippleLife
        /\ \E e \in enterLog : e.button = b /\ e.age < RippleLife /\ e.age > 0
        /\ Cardinality({r \in ripples : r.button = b}) = 1

====
